---- MODULE Spec2Model ----
(***************************************************************************)
(* mcpadapt: the session lifecycle of MCPAdapt (src/mcpadapt/core.py).     *)
(*                                                                         *)
(* One MCPAdapt instance, the thread that constructs and uses it (the      *)
(* caller), the background thread the constructor starts (_run_loop), and  *)
(* the MCP server the descriptor points to (the environment).  mcptools is *)
(* run twice by the code: by setup() on the background loop and by         *)
(* __aenter__ on the caller's loop; both runs are instances of the same    *)
(* generator and are stepped by the same operator McpStep.                 *)
(***************************************************************************)
EXTENDS FiniteSets, Integers, Sequences, TLC

\* ------------------------------------------------------------------ bounds
\* longest list-tools response of the server
MaxTools == 2
\* API calls (start, tools, close, __aenter__, __aexit__) made after the constructor
MaxCalls == 4

\* ------------------------------------------------------- values and inputs
ToolNames == {"echo_tool", "add"}

ToolLists == UNION {[1..n -> ToolNames] : n \in 0..MaxTools}

\* The shapes of `serverparams` a caller can pass.  "list" is a list of
\* several descriptors.
Descriptors ==
    {"stdio", "sse", "sse_default", "streamable_http", "streamable_http_nourl",
     "unsupported_transport", "list"}

\* How the server behaves during one connection attempt: no fault, or the
\* step of the handshake that fails.
\* "silent": the server accepts the channel and never answers initialize
Faults == {"none", "open", "initialize", "list_tools", "silent"}

\* value of the fail_fast keyword at the constructor call ("absent": not passed)
FailFastArgs == {"absent", "true", "false"}

NoTools == [isNone |-> TRUE, items |-> << >>]

NoResult == [op |-> "none", status |-> "none", err |-> "none", val |-> << >>]

Ok(op, val) == [op |-> op, status |-> "ok", err |-> "none", val |-> val]

Raised(op, err) == [op |-> op, status |-> "raised", err |-> err, val |-> << >>]

VARIABLES
    \* environment
    serverFault,      \* fault of the server for the connection attempts made now
    serverTools,      \* the list the server answers to list_tools
    \* the constructor call
    serverparams,     \* descriptor passed
    kwFailFast,       \* fail_fast keyword passed
    kwObserver,       \* on_connection_error keyword passed
    kwAuthProvider,   \* auth_provider keyword passed
    observerCalls,    \* invocations of the on_connection_error observer
    adapter,          \* what the adapter given to MCPAdapt implements
    \* fields of the instance
    session,          \* self.session: 0 is None, else the connection's index in conns
    mcp_tools,        \* self.mcp_tools
    loopClosed,       \* self.loop.is_closed()
    task,             \* self.task: "none", "pending", "cancelled", "failed"
    ready,            \* self.ready.is_set()
    bgPc,             \* self.thread: position of _run_loop
    bgm,              \* the mcptools generator run by setup()
    ctxmanager,       \* self._ctxmanager: the mcptools generator run by __aenter__
    cancelPending,    \* task.cancel scheduled on the loop by call_soon_threadsafe
    \* the connections opened so far
    conns,
    \* the caller
    callerPc,
    lastCall,         \* the call in progress, or the last one made
    calls,            \* API calls made after the constructor
    result,           \* outcome of the last completed call
    stats,            \* history: cancellations requested, joins, loop closes
    \* SmolAgentsAdapter (src/mcpadapt/smolagents_adapter.py)
    structured_output,  \* SmolAgentsAdapter.structured_output
    inputSchema,      \* mcp_tool.inputSchema of the tool given to adapt()
    outputSchema,       \* mcp_tool.outputSchema of the tool being adapted
    adapted,            \* the MCPAdaptTool built by adapt()
    mcp_output,         \* the CallToolResult of the last forward()
    fwd,                \* outcome of the last forward()
    \* calls of adapted tools (core.py lines 237-242 and 293)
    held,               \* the adapted tools the caller got from tools() / __aenter__
    asyncConns,         \* connections whose session runs on the caller's loop
    inv,                \* per calling thread: its call of an adapted tool
    futs,               \* the futures run_coroutine_threadsafe handed out
    \* _sanitize_function_name (smolagents_adapter.py) and the auth providers
    \* (auth/providers.py)
    name,               \* the tool name given to the sanitizer
    sanitized,          \* the outcomes of the sanitizer's calls on it, in order
    config,             \* the provider's self.config
    heap,               \* the header dicts get_headers() has created
    returned,            \* what each get_headers() call returned: the dict and its value then
    provider,         \* what create_auth_provider gave for config
    \* the OAuth callback server (auth/handlers.py)
    callback_data,      \* LocalCallbackServer.callback_data
    callbackServer,     \* the HTTP server: its state and the requests it handled
    waiting             \* default_callback_handler and its wait_for_callback

envVars == <<serverFault, serverTools>>
argVars == <<serverparams, adapter, kwFailFast, kwObserver, kwAuthProvider, observerCalls>>
objVars == <<session, mcp_tools, loopClosed, task, ready>>
bgVars == <<bgPc, bgm, cancelPending>>
callerVars == <<callerPc, lastCall, calls, result>>
adapterVars == <<structured_output, inputSchema, outputSchema, adapted, mcp_output, fwd>>
callVars == <<held, asyncConns, inv, futs>>
utilVars ==
    <<name, sanitized, config, heap, returned, provider, callback_data, callbackServer, waiting>>
lifecycleVars ==
    <<envVars, argVars, objVars, bgVars, ctxmanager, conns, callerVars, stats>>
vars == <<lifecycleVars, adapterVars, utilVars, callVars>>

\* ---------------------------------------------------------------- mcptools
\* lines 98-116: the client context manager chosen for a descriptor
SelectClientSseForAnyDict(d) ==
    CASE d = "stdio" -> "stdio_client"
      [] d = "streamable_http" -> "streamablehttp_client"
      [] d = "list" -> "ValueError"
      [] OTHER -> "sse_client"

SelectClient(d) ==
    CASE d = "stdio" -> "stdio_client"
      [] d = "streamable_http" -> "streamablehttp_client"
      [] d = "streamable_http_nourl" -> "ValueError"
      [] d \in {"sse", "sse_default"} -> "sse_client"
      [] OTHER -> "ValueError"

\* number of values the client context manager yields (lines 129-136)
ClientOutputLen(client) == IF client = "streamablehttp_client" THEN 3 ELSE 2

\* `via`: the client context manager that opened the channel
NewConn ==
    [chan |-> "open", sess |-> "none", chanCloses |-> 0, sessCloses |-> 0, via |-> "none"]

\* line 76: the default of client_session_timeout_seconds
DefaultTimeoutSeconds == 5

\* A value given as client_session_timeout_seconds, with its Python type.
TimeoutArg(type, secs) == [type |-> type, secs |-> secs]

NoTimeout == [set |-> FALSE, secs |-> 0]

\* lines 118-122: timeout_delta.  Only a float or a timedelta is taken; an
\* int (the default 5 is one) and None leave it None.
TimeoutDelta(arg) ==
    IF arg.type \in {"float", "timedelta"}
    THEN [set |-> TRUE, secs |-> arg.secs]
    ELSE NoTimeout

\* mcptools(self.serverparams) (lines 209, 298): MCPAdapt passes no timeout,
\* so the default applies.
NewGen ==
    [active |-> TRUE, pc |-> "start", conn |-> 0, err |-> "none", tools |-> << >>,
     timeout |-> TimeoutDelta(TimeoutArg("int", DefaultTimeoutSeconds))]

NoGen ==
    [active |-> FALSE, pc |-> "start", conn |-> 0, err |-> "none", tools |-> << >>,
     timeout |-> NoTimeout]

\* Leaving the two `async with` blocks of mcptools (lines 128, 138): the
\* session's __aexit__ if it was entered, then the channel's.
UnwindLeakChannel(cs, id) ==
    IF id = 0 THEN cs
    ELSE [cs EXCEPT ![id] =
            [chan |-> @.chan,
             sess |-> IF @.sess = "open" THEN "closed" ELSE @.sess,
             chanCloses |-> @.chanCloses,
             sessCloses |-> @.sessCloses + (IF @.sess = "open" THEN 1 ELSE 0),
             via |-> @.via]]

Unwind(cs, id) ==
    IF id = 0 THEN cs
    ELSE [cs EXCEPT ![id] =
            [chan |-> "closed",
             sess |-> IF @.sess = "open" THEN "closed" ELSE @.sess,
             chanCloses |-> @.chanCloses + 1,
             sessCloses |-> @.sessCloses + (IF @.sess = "open" THEN 1 ELSE 0),
             via |-> @.via]]

GenRaise(m, cs, err) ==
    [m |-> [m EXCEPT !.pc = "raised", !.err = err], conns |-> Unwind(cs, m.conn)]

\* One step of the generator, from one suspension point to the next.
McpStep(m, cs, d, fault, tools) ==
    CASE m.pc = "start" ->
            IF SelectClient(d) = "ValueError" THEN GenRaise(m, cs, "ValueError")
            ELSE IF fault = "open" THEN GenRaise(m, cs, "ConnectionError")
            ELSE [m |-> [m EXCEPT !.pc = "opened", !.conn = Len(cs) + 1],
                  conns |-> Append(cs, [NewConn EXCEPT !.via = SelectClient(d)])]
      [] m.pc = "opened" ->
            IF ClientOutputLen(SelectClient(d)) \notin {2, 3}
            THEN GenRaise(m, cs, "RuntimeError")
            ELSE [m |-> [m EXCEPT !.pc = "session"],
                  conns |-> [cs EXCEPT ![m.conn].sess = "open"]]
      [] m.pc = "session" ->
            IF fault = "initialize" THEN GenRaise(m, cs, "McpError")
            ELSE IF fault = "silent"
            THEN \* the request waits read_timeout_seconds for its answer,
                 \* without end if there is none
                 IF m.timeout.set THEN GenRaise(m, cs, "McpError")
                 ELSE [m |-> [m EXCEPT !.pc = "hung"], conns |-> cs]
            ELSE [m |-> [m EXCEPT !.pc = "initialized"], conns |-> cs]
      [] m.pc = "initialized" ->
            IF fault = "list_tools" THEN GenRaise(m, cs, "McpError")
            ELSE [m |-> [m EXCEPT !.pc = "yielded", !.tools = tools], conns |-> cs]
      [] OTHER -> [m |-> m, conns |-> cs]

GenRunning(m) == m.active /\ m.pc \in {"start", "opened", "session", "initialized"}

\* the generator resumed after its yield: both blocks are left
GenClose(m, cs) == [m |-> [m EXCEPT !.pc = "closed"], conns |-> Unwind(cs, m.conn)]

\* ------------------------------------------- SmolAgentsAdapter: the values
\* longest content list of a call result
MaxContent == 2

\* Python values an adapted tool returns, tagged with their type.
Str(text) == [t |-> "str", v |-> text]

PyNone == [t |-> "None", v |-> ""]

\* texts of TextContent items: empty, a JSON object, a JSON array, text that
\* is no JSON
JsonObjectText == "{\"weather\": \"sunny\"}"

JsonArrayText == "[\"a\", \"b\"]"

Texts == {"", JsonObjectText, JsonArrayText, "{not json"}

\* structuredContent of a call result: None or a dict
Payloads == {PyNone, [t |-> "dict", v |-> "weather=rainy"]}

ContentItems ==
    {[type |-> "text", text |-> x] : x \in Texts}
        \cup {[type |-> "image", text |-> ""], [type |-> "audio", text |-> ""]}

Contents == UNION {[1..n -> ContentItems] : n \in 0..MaxContent}

\* mcp_tool.outputSchema: None, {}, a schema of type object, the same with $ref's
OutputSchemas == {"none", "empty", "object_schema", "object_schema_refs"}

\* forward has not been called
NoShape == [args |-> << >>, kwargs |-> FALSE]

\* How forward(*args, **kwargs) is called: the types of the positional
\* arguments, and whether keyword arguments are given.  A call with no
\* argument at all passes the empty keyword mapping and goes the way of a
\* call with keyword arguments only.
ArgShapes ==
    [args : {<< >>, <<"dict">>, <<"str">>, <<"dict", "dict">>}, kwargs : BOOLEAN]
        \ {NoShape}

\* forward(a=..., b=...)
KwargsOnly == [args |-> << >>, kwargs |-> TRUE]

\* most properties of an input schema
MaxParams == 2

\* A property of an input schema: whether it has a "description" and which
\* "type" it has ("absent": the key is missing).
Properties ==
    [description : {"absent", "given"}, type : {"absent", "integer", "string"}]

\* inputSchema of a tool: a JSON object with or without the key "properties"
InputSchemas ==
    {[hasProperties |-> FALSE, properties |-> << >>]}
        \cup {[hasProperties |-> TRUE, properties |-> ps] :
                 ps \in UNION {[1..n -> Properties] : n \in 0..MaxParams}}

\* the schema of a tool with one parameter, fully described
PlainInputSchema ==
    [hasProperties |-> TRUE,
     properties |-> <<[description |-> "given", type |-> "string"]>>]

\* an output schema holding a "$ref" that names no definition
UnresolvableRefsSchema == "object_schema_bad_refs"

NoTool ==
    [made |-> FALSE, err |-> "none", inputs |-> << >>, output_type |-> "none",
     output_schema |-> "none", use_structured_features |-> FALSE]

NoOutput == [content |-> << >>, structuredContent |-> PyNone]

\* `shape`: how forward was called; `passed`: what func was called with
NoForward ==
    [status |-> "none", err |-> "none", value |-> PyNone, warnings |-> {}, shape |-> NoShape,
     passed |-> "none"]

\* no adapter in use
AdapterUnused ==
    /\ structured_output = FALSE
    /\ inputSchema = PlainInputSchema
    /\ outputSchema = "none"
    /\ adapted = NoTool
    /\ mcp_output = NoOutput
    /\ fwd = NoForward

\* ---------------------------------------------- calls of adapted tools
\* threads that call adapted tools; every call, of the bridge or of a tool,
\* counts against MaxCalls
MaxCallers == 2
Callers == 1..MaxCallers

\* What a call produces: a CallToolResult (status "ok", isError as the server
\* set it) or an exception (status "raised").  `tool` and `echo` are the name
\* and the argument of the request it answers.
NoOutcome == [status |-> "none", err |-> "none", isError |-> FALSE, tool |-> "", echo |-> 0]

NoRequest == [session |-> 0, loop |-> "none", name |-> "", arg |-> 0, overlaps |-> {}]

NoHeldTool == [name |-> "", how |-> "none", listed |-> 0]

IdleCall ==
    [pc |-> "idle", tool |-> NoHeldTool, req |-> NoRequest, produced |-> NoOutcome,
     resp |-> NoOutcome]

\* no adapted tool has been handed out or called
CallsUnused ==
    /\ held = << >>
    /\ asyncConns = {}
    /\ inv = [c \in Callers |-> IdleCall]
    /\ futs = [c \in Callers |-> NoOutcome]

\* ------------------------------------- tool names and the auth providers
\* longest tool name
MaxNameLen == 3
\* calls of the sanitizer, or of get_headers(), on the same input
MaxRepeats == 2

\* Characters of tool names: letters, decimal digits, '-', '_', a character
\* that is no word character, and a digit that is no decimal ('²').
Letters == {"c", "d", "e", "f", "h", "l", "o", "t", "x"}

DecimalDigits == {"1", "2", "3"}

SuperscriptTwo == "sup2"

Chars == {"d", "e", "f", "x", "1", "-", "_", "!", SuperscriptTwo}

Names == UNION {[1..n -> Chars] : n \in 0..MaxNameLen}

\* the names of the tests and of the docstring
ExampleNames ==
    {<<"e", "c", "h", "o", "-", "t", "o", "o", "l">>, <<"d", "e", "f">>,
     <<"1", "2", "3", "x">>}

NoConfig == [type |-> "none", header_name |-> "", header_value |-> "", token |-> ""]

\* ApiKeyConfig(header_name, header_value) and BearerAuthConfig(token)
Configs ==
    {[type |-> "api_key", header_name |-> n, header_value |-> v, token |-> ""] :
        n \in {"X-API-Key", "Authorization"}, v \in {"test-key", "v"}}
    \cup {[type |-> "bearer", header_name |-> "", header_value |-> "", token |-> t] :
            t \in {"test-key", "v"}}

\* every configuration create_auth_provider can be given: those above, an
\* OAuthConfig, and an object of no configuration class
AuthConfigs ==
    Configs \cup {[type |-> t, header_name |-> "", header_value |-> "", token |-> ""] :
                    t \in {"oauth", "unsupported"}}

NoProvider == [status |-> "none", kind |-> "none"]

\* LocalCallbackServer.__init__, line 76
NoCallbackData == [authorization_code |-> "", state |-> "", error |-> ""]

\* no callback server has been created
CallbackUnused ==
    /\ callback_data = NoCallbackData
    /\ callbackServer = [state |-> "none", requests |-> << >>]
    /\ waiting = [pc |-> "new", elapsed |-> 0, status |-> "none", value |-> "", err |-> "none"]

\* neither the sanitizer nor a provider is in use
UtilsUnused ==
    /\ name = << >>
    /\ sanitized = << >>
    /\ config = NoConfig
    /\ heap = << >>
    /\ returned = << >>
    /\ provider = NoProvider
    /\ CallbackUnused

\* -------------------------------------------------------------------- Init
Init ==
    /\ serverFault \in Faults
    /\ serverTools \in ToolLists
    /\ serverparams \in Descriptors
    /\ adapter = "both"
    /\ kwFailFast \in FailFastArgs
    /\ kwObserver \in BOOLEAN
    /\ kwAuthProvider = FALSE
    /\ observerCalls = 0
    /\ session = 0
    /\ mcp_tools = NoTools
    /\ loopClosed = FALSE
    /\ task = "none"
    /\ ready = FALSE
    /\ bgPc = "none"
    /\ bgm = NoGen
    /\ ctxmanager = NoGen
    /\ cancelPending = FALSE
    /\ conns = << >>
    /\ callerPc = "new"
    /\ lastCall = "none"
    /\ calls = 0
    /\ result = NoResult
    /\ stats = [cancels |-> 0, joins |-> 0, loopCloses |-> 0]
    /\ AdapterUnused
    /\ CallsUnused
    /\ UtilsUnused

ThreadAlive == bgPc \notin {"none", "dead"}

\* ------------------------------------------------------------- constructor
\* MCPAdapt(serverparams, adapter[, fail_fast=...][, on_connection_error=...]).
\* __init__ takes (serverparams, adapter) only: any further keyword makes the
\* call raise TypeError before the body runs.  Otherwise the body runs to
\* ready.wait() (line 199).
Construct ==
    /\ callerPc = "new"
    /\ lastCall' = "init"
    /\ IF kwFailFast # "absent" \/ kwObserver \/ kwAuthProvider
       THEN /\ callerPc' = "noinstance"
            /\ result' = Raised("init", "TypeError")
            /\ UNCHANGED <<objVars, bgVars>>
       ELSE /\ session' = 0
            /\ mcp_tools' = NoTools
            /\ loopClosed' = FALSE
            /\ task' = "none"
            /\ ready' = FALSE
            /\ bgPc' = "run"
            /\ callerPc' = "wait_ready"
            /\ UNCHANGED <<bgm, cancelPending, result>>
    /\ UNCHANGED <<envVars, argVars, adapterVars, utilVars, callVars, ctxmanager, conns, calls, stats>>

\* ready.wait() returns (line 199 for the constructor, line 259 for start)
WaitReady ==
    /\ callerPc = "wait_ready"
    /\ ready
    /\ callerPc' = "idle"
    /\ result' = Ok(lastCall, << >>)
    /\ UNCHANGED <<envVars, argVars, adapterVars, utilVars, callVars, objVars, bgVars, ctxmanager, conns, lastCall,
                   calls, stats>>

\* ------------------------------------------------------- background thread
\* line 215: the task is created; nothing of setup() has run yet
BgCreateTask ==
    /\ bgPc = "run"
    /\ task' = "pending"
    /\ bgm' = NewGen
    /\ bgPc' = "setup"
    /\ UNCHANGED <<envVars, argVars, adapterVars, utilVars, callVars, session, mcp_tools, loopClosed, ready,
                   cancelPending, ctxmanager, conns, callerVars, stats>>

\* setup() inside `async with mcptools(...)`, up to the yield.  An exception
\* of mcptools leaves setup(), the task and run_until_complete (line 217):
\* it is no CancelledError, so it ends the thread.
BgSetupStep ==
    /\ bgPc = "setup"
    /\ GenRunning(bgm)
    /\ LET r == McpStep(bgm, conns, serverparams, serverFault, serverTools) IN
        /\ bgm' = r.m
        /\ conns' = r.conns
        /\ IF r.m.pc = "raised"
           THEN task' = "failed" /\ bgPc' = "dead"
           ELSE UNCHANGED <<task, bgPc>>
    /\ UNCHANGED <<envVars, argVars, adapterVars, utilVars, callVars, session, mcp_tools, loopClosed, ready,
                   cancelPending, ctxmanager, callerVars, stats>>

\* lines 210-211
BgStore ==
    /\ bgPc = "setup"
    /\ bgm.pc = "yielded"
    /\ session' = bgm.conn
    /\ mcp_tools' = [isNone |-> FALSE, items |-> bgm.tools]
    /\ bgPc' = "store"
    /\ UNCHANGED <<envVars, argVars, adapterVars, utilVars, callVars, loopClosed, task, ready, bgm, cancelPending,
                   ctxmanager, conns, callerVars, stats>>

\* where setup() stands when it comes to line 212: after the two
\* assignments of lines 210-211
ReadySetAnywhereInSetup(pc) == pc \in {"setup", "store"}

ReadySetAt(pc) == pc = "store"

\* lines 212-213
BgSetReady ==
    /\ ReadySetAt(bgPc)
    /\ ready' = TRUE
    /\ bgPc' = "serving"
    /\ UNCHANGED <<envVars, argVars, adapterVars, utilVars, callVars, session, mcp_tools, loopClosed, task, bgm,
                   cancelPending, ctxmanager, conns, callerVars, stats>>

\* run_until_complete returns and the loop runs no more: a coroutine that was
\* handed to it (line 240) and has not completed never will.
LoseScheduled(iv) ==
    [c \in DOMAIN iv |-> IF iv[c].pc = "scheduled" THEN [iv[c] EXCEPT !.pc = "lost"] ELSE iv[c]]

\* The loop runs the scheduled task.cancel: CancelledError is thrown into
\* setup() at its await, the `async with` is left, run_until_complete raises
\* CancelledError, which line 218 swallows; the thread ends.
BgCancel ==
    /\ cancelPending
    /\ task = "pending"
    /\ bgPc \in {"setup", "store", "serving"}
    /\ LET r == GenClose(bgm, conns) IN
        /\ bgm' = r.m
        /\ conns' = r.conns
    /\ task' = "cancelled"
    /\ bgPc' = "dead"
    /\ cancelPending' = FALSE
    /\ inv' = LoseScheduled(inv)
    /\ UNCHANGED <<envVars, argVars, adapterVars, utilVars, held, asyncConns, futs, session,
                   mcp_tools, loopClosed, ready, ctxmanager, callerVars, stats>>

\* The cancellation is requested but the thread never gets through it: the
\* task does not reach a point where it observes it, or the transport's
\* teardown it runs on the way out blocks.  The thread stays alive.
BgIgnoreCancel ==
    /\ cancelPending
    /\ task = "pending"
    /\ bgPc = "serving"
    /\ bgPc' = "stuck"
    /\ cancelPending' = FALSE
    /\ UNCHANGED <<envVars, argVars, adapterVars, utilVars, callVars, objVars, bgm, ctxmanager, conns, callerVars,
                   stats>>

\* ------------------------------------------------------------- environment
\* The server's behaviour changes between two connection attempts.
ServerChanges ==
    /\ callerPc = "idle"
    /\ bgPc \notin {"run", "setup", "store"}
    /\ \E f \in Faults \ {serverFault} : serverFault' = f
    /\ UNCHANGED <<serverTools, argVars, adapterVars, utilVars, callVars, objVars, bgVars, ctxmanager, conns,
                   callerVars, stats>>

\* ------------------------------------------------------------ start, tools
\* line 251: `if not self.thread.is_alive()`
StartReinitializesAlways(alive) == TRUE

StartReinitializes(alive) == ~alive

\* lines 249-259
Start ==
    /\ callerPc = "idle"
    /\ calls < MaxCalls
    /\ lastCall' = "start"
    /\ calls' = calls + 1
    /\ IF StartReinitializes(ThreadAlive)
       THEN /\ loopClosed' = FALSE
            /\ task' = "none"
            /\ ready' = FALSE
            /\ bgPc' = "run"
       ELSE UNCHANGED <<loopClosed, task, ready, bgPc>>
    /\ callerPc' = "wait_ready"
    /\ UNCHANGED <<envVars, argVars, adapterVars, utilVars, callVars, session, mcp_tools, bgm, cancelPending,
                   ctxmanager, conns, result, stats>>

\* line 234 and line 289: `not self.session or not self.mcp_tools`
NotInitialized(s, t) == s = 0 \/ t.isNone \/ t.items = << >>

\* lines 244-247 and 292-295: one adapted tool per entry of mcp_tools, in order
AdaptAll(items, how) == [i \in 1..Len(items) |-> [name |-> items[i], how |-> how]]

\* lines 222-247; __enter__ (line 272) is this call
Tools ==
    /\ callerPc = "idle"
    /\ calls < MaxCalls
    /\ lastCall' = "tools"
    /\ calls' = calls + 1
    /\ result' = IF NotInitialized(session, mcp_tools)
                 THEN Raised("tools", "RuntimeError")
                 ELSE Ok("tools", AdaptAll(mcp_tools.items, "adapt"))
    /\ UNCHANGED <<envVars, argVars, adapterVars, utilVars, callVars, objVars, bgVars, ctxmanager, conns, callerPc,
                   stats>>

\* ------------------------------------------------------------------- close
\* line 263: `self.task and not self.task.done()`
ShouldCancelNoDoneCheck(t) == t # "none"

ShouldCancel(t) == t # "none" /\ t \notin {"cancelled", "failed"}

\* line 267: `not self.loop.is_closed()`
ShouldCloseLoop(closed) == ~closed

\* lines 263-266, up to the join; __exit__ (line 275) is this call.
\* call_soon_threadsafe raises RuntimeError on a closed loop.
CloseBegin ==
    /\ callerPc = "idle"
    /\ calls < MaxCalls
    /\ lastCall' = "close"
    /\ calls' = calls + 1
    /\ IF ShouldCancel(task) /\ loopClosed
       THEN /\ result' = Raised("close", "RuntimeError")
            /\ callerPc' = "idle"
            /\ UNCHANGED <<cancelPending, stats>>
       ELSE /\ cancelPending' = (cancelPending \/ ShouldCancel(task))
            /\ stats' = [stats EXCEPT
                            !.cancels = @ + (IF ShouldCancel(task) THEN 1 ELSE 0),
                            !.joins = @ + (IF ThreadAlive THEN 1 ELSE 0)]
            /\ callerPc' = IF ThreadAlive THEN "close_join" ELSE "close_loop"
            /\ UNCHANGED result
    /\ UNCHANGED <<envVars, argVars, adapterVars, utilVars, callVars, objVars, bgPc, bgm, ctxmanager, conns>>

\* line 266: join() returns once the thread has ended; it has no timeout
CloseJoin ==
    /\ callerPc = "close_join"
    /\ ~ThreadAlive
    /\ callerPc' = "close_loop"
    /\ UNCHANGED <<envVars, argVars, adapterVars, utilVars, callVars, objVars, bgVars, ctxmanager, conns, lastCall,
                   calls, result, stats>>

\* lines 267-268
CloseLoop ==
    /\ callerPc = "close_loop"
    /\ IF ShouldCloseLoop(loopClosed)
       THEN loopClosed' = TRUE /\ stats' = [stats EXCEPT !.loopCloses = @ + 1]
       ELSE UNCHANGED <<loopClosed, stats>>
    /\ callerPc' = "idle"
    /\ result' = Ok("close", << >>)
    /\ UNCHANGED <<envVars, argVars, adapterVars, utilVars, callVars, session, mcp_tools, task, ready, bgVars,
                   ctxmanager, conns, lastCall, calls>>

\* ------------------------------------------------- async context manager
\* line 298 and the start of line 299
AEnterBegin ==
    /\ callerPc = "idle"
    /\ calls < MaxCalls
    /\ lastCall' = "aenter"
    /\ calls' = calls + 1
    /\ ctxmanager' = NewGen
    /\ callerPc' = "aenter"
    /\ UNCHANGED <<envVars, argVars, adapterVars, utilVars, callVars, objVars, bgVars, conns, result, stats>>

\* line 299: mcptools up to its yield, on the caller's loop; its exception
\* leaves __aenter__
AEnterStep ==
    /\ callerPc = "aenter"
    /\ GenRunning(ctxmanager)
    /\ LET r == McpStep(ctxmanager, conns, serverparams, serverFault, serverTools) IN
        /\ ctxmanager' = r.m
        /\ conns' = r.conns
        /\ IF r.m.pc = "raised"
           THEN callerPc' = "idle" /\ result' = Raised("aenter", r.m.err)
           ELSE UNCHANGED <<callerPc, result>>
        /\ asyncConns' = asyncConns \cup (DOMAIN r.conns \ DOMAIN conns)
    /\ UNCHANGED <<envVars, argVars, adapterVars, utilVars, held, inv, futs, objVars, bgVars,
                   lastCall, calls, stats>>

\* The adapters a caller can pass.  "both": adapt and a plain async_adapt
\* (DummyAdapter).  "inherited": a subclass of ToolAdapter defining adapt only,
\* whose async_adapt is the base method.  "smolagents": SmolAgentsAdapter.
Adapters == {"both", "inherited", "smolagents"}

\* The value of the expression adapter.async_adapt(afunc, tool) of line 293,
\* which is not awaited.  The base method is a plain function whose body
\* raises.  SmolAgentsAdapter's is declared `async def`: calling it runs none
\* of its body and gives a coroutine object.
AsyncAdapt(ad, tool) ==
    CASE ad = "both" -> [status |-> "ok", tool |-> [name |-> tool, how |-> "async_adapt"]]
      [] ad = "inherited" -> [status |-> "raised", tool |-> [name |-> tool, how |-> "none"]]
      [] ad = "smolagents" -> [status |-> "ok", tool |-> [name |-> tool, how |-> "coroutine"]]

\* lines 292-295: the list comprehension of atools(); the first raise ends it
AToolsList(ad, items) ==
    IF \E i \in DOMAIN items : AsyncAdapt(ad, items[i]).status = "raised"
    THEN Raised("aenter", "NotImplementedError")
    ELSE Ok("aenter", [i \in DOMAIN items |-> AsyncAdapt(ad, items[i]).tool])

\* lines 299-300: the yielded pair is stored and atools() (lines 289-295) runs
AEnterFinish ==
    /\ callerPc = "aenter"
    /\ ctxmanager.pc = "yielded"
    /\ session' = ctxmanager.conn
    /\ mcp_tools' = [isNone |-> FALSE, items |-> ctxmanager.tools]
    /\ result' = IF NotInitialized(session', mcp_tools')
                 THEN Raised("aenter", "RuntimeError")
                 ELSE AToolsList(adapter, mcp_tools'.items)
    /\ callerPc' = "idle"
    /\ UNCHANGED <<envVars, argVars, adapterVars, utilVars, callVars, loopClosed, task, ready, bgVars, ctxmanager,
                   conns, lastCall, calls, stats>>

\* lines 302-304.  __aexit__ of a generator that already ended is a no-op.
AExit ==
    /\ callerPc = "idle"
    /\ calls < MaxCalls
    /\ lastCall' = "aexit"
    /\ calls' = calls + 1
    /\ IF ctxmanager.active /\ ctxmanager.pc = "yielded"
       THEN LET r == GenClose(ctxmanager, conns) IN
                ctxmanager' = r.m /\ conns' = r.conns
       ELSE UNCHANGED <<ctxmanager, conns>>
    /\ result' = Ok("aexit", << >>)
    /\ UNCHANGED <<envVars, argVars, adapterVars, utilVars, callVars, objVars, bgVars, callerPc, stats>>

\* The caller awaits an entry of the list atools() gave.  The body of
\* SmolAgentsAdapter.async_adapt (line 302) runs now, and raises.
AwaitAdapted ==
    /\ callerPc = "idle"
    /\ calls < MaxCalls
    /\ result.op = "aenter"
    /\ result.status = "ok"
    /\ \E i \in DOMAIN result.val : result.val[i].how = "coroutine"
    /\ lastCall' = "await"
    /\ calls' = calls + 1
    /\ result' = Raised("await", "NotImplementedError")
    /\ UNCHANGED <<envVars, argVars, adapterVars, utilVars, callVars, objVars, bgVars, ctxmanager,
                   conns, callerPc, stats>>

BgNext ==
    \/ BgCreateTask
    \/ BgSetupStep
    \/ BgStore
    \/ BgSetReady
    \/ BgCancel
    \/ BgIgnoreCancel

\* steps of a call the caller has begun
CallerProgress ==
    \/ WaitReady
    \/ CloseJoin
    \/ CloseLoop
    \/ AEnterStep
    \/ AEnterFinish

Next ==
    \/ Construct
    \/ WaitReady
    \/ Start
    \/ Tools
    \/ CloseBegin
    \/ CloseJoin
    \/ CloseLoop
    \/ AEnterBegin
    \/ AEnterStep
    \/ AEnterFinish
    \/ AExit
    \/ BgCreateTask
    \/ BgSetupStep
    \/ BgStore
    \/ BgSetReady
    \/ BgCancel
    \/ BgIgnoreCancel
    \/ ServerChanges

Spec == Init /\ [][Next]_vars

\* Threads are scheduled: a thread that can take a step eventually takes one.
FairSpec == Spec /\ WF_vars(BgNext) /\ WF_vars(CallerProgress)

\* The descriptor of the usage examples of mcpadapt.auth,
\* {"url": ..., "transport": "streamable-http"}: a dict whose transport tag,
\* spelled with a hyphen, is none of the tags lines 105 and 109 compare with.
DocumentedDescriptor == "unsupported_transport"

\* MCPAdapt(serverparams=d, adapter=..., [auth_provider=...]) for a network
\* descriptor d, as in the usage examples of mcpadapt.auth
AuthUsageInit ==
    /\ serverFault = "none"
    /\ serverTools \in ToolLists
    /\ serverparams \in {DocumentedDescriptor, "streamable_http"}
    /\ adapter = "both"
    /\ kwFailFast = "absent"
    /\ kwObserver = FALSE
    /\ kwAuthProvider \in BOOLEAN
    /\ observerCalls = 0
    /\ session = 0
    /\ mcp_tools = NoTools
    /\ loopClosed = FALSE
    /\ task = "none"
    /\ ready = FALSE
    /\ bgPc = "none"
    /\ bgm = NoGen
    /\ ctxmanager = NoGen
    /\ cancelPending = FALSE
    /\ conns = << >>
    /\ callerPc = "new"
    /\ lastCall = "none"
    /\ calls = 0
    /\ result = NoResult
    /\ stats = [cancels |-> 0, joins |-> 0, loopCloses |-> 0]
    /\ AdapterUnused
    /\ CallsUnused
    /\ UtilsUnused

AuthUsageSpec == AuthUsageInit /\ [][Next]_vars

\* ======================================================= SmolAgentsAdapter
\* `if x` on a schema: None and {} are false
Truthy(schema) == schema \notin {"none", "empty"}

\* jsonref.replace_refs (line 199).  A reference that cannot be resolved
\* stays in the schema: replace_refs either leaves a lazy reference in
\* place or raises, and line 202 then takes the schema as it was given.
ReplaceRefs(schema) == IF schema = "object_schema_refs" THEN "object_schema" ELSE schema

\* lines 196-202
OutputSchemaOf(structured, schema) ==
    IF structured /\ Truthy(schema) THEN ReplaceRefs(schema) ELSE "none"

\* lines 205-208
OutputTypeAlwaysObject(structured, output_schema) == "object"

OutputType(structured, output_schema) ==
    IF structured /\ Truthy(output_schema) THEN "object" ELSE "string"

\* lines 195-226 and 286-293: the tool adapt() builds
MakeTool(structured, schema) ==
    [made |-> TRUE,
     err |-> "none",
     inputs |-> << >>,
     output_type |-> OutputType(structured, OutputSchemaOf(structured, schema)),
     output_schema |-> OutputSchemaOf(structured, schema),
     use_structured_features |-> structured]

\* json.loads on the texts of Texts
ParseJson(text) ==
    CASE text = JsonObjectText -> [ok |-> TRUE, value |-> [t |-> "dict", v |-> "weather=sunny"]]
      [] text = JsonArrayText -> [ok |-> TRUE, value |-> [t |-> "list", v |-> "a,b"]]
      [] OTHER -> [ok |-> FALSE, value |-> PyNone]

\* schema.get("type") of the schemas of OutputSchemas
SchemaType(schema) == IF Truthy(schema) THEN "object" ELSE "none"

\* _validate_output_against_schema with strict=False (lines 104-141): the
\* warnings it logs; the output is returned unchanged
ValidateWarnings(output, schema) ==
    IF Truthy(schema) /\ SchemaType(schema) # "string" /\ output.t = "str"
    THEN {"plain_text_for_schema"}
    ELSE {}

\* lines 245-247
PrefersPayloadIgnoringMode(t, out) == out.structuredContent # PyNone

PrefersPayload(t, out) == t.use_structured_features /\ out.structuredContent # PyNone

\* lines 253-259: the warning for more than one content item
NoContentWarning(content) == {}

ContentWarnings(content) == IF Len(content) > 1 THEN {"multiple_content"} ELSE {}

\* line 263: isinstance(content_item, mcp.types.TextContent)
AnyContentIsText(item) == TRUE

IsTextContent(item) == item.type = "text"

\* line 271: whether the text is handed to json.loads
TriesJsonOnEmptyText(t, text) == t.use_structured_features /\ t.output_type = "object"

TriesJson(t, text) ==
    t.use_structured_features /\ t.output_type = "object" /\ text # ""

ForwardRaised(err, w) ==
    [status |-> "raised", err |-> err, value |-> PyNone, warnings |-> w, shape |-> NoShape,
     passed |-> "none"]

ForwardReturned(value, w) ==
    [status |-> "returned", err |-> "none", value |-> value, warnings |-> w, shape |-> NoShape,
     passed |-> "none"]

\* lines 230-238: whether func is called, and with which object
FuncArgumentIgnoringKwargs(shape) ==
    IF Len(shape.args) > 0
    THEN IF Len(shape.args) = 1 /\ shape.args[1] = "dict"
         THEN [called |-> TRUE, passed |-> "args[0]"]
         ELSE [called |-> FALSE, passed |-> "none"]
    ELSE [called |-> TRUE, passed |-> "kwargs"]

FuncArgument(shape) ==
    IF Len(shape.args) > 0
    THEN IF Len(shape.args) = 1 /\ shape.args[1] = "dict" /\ ~shape.kwargs
         THEN [called |-> TRUE, passed |-> "args[0]"]
         ELSE [called |-> FALSE, passed |-> "none"]
    ELSE [called |-> TRUE, passed |-> "kwargs"]

\* MCPAdaptTool.forward (lines 229-284) on the call result `out`
ForwardOutcome(t, shape, out) ==
    IF ~FuncArgument(shape).called THEN ForwardRaised("ValueError", {})
    ELSE IF out.content = << >> THEN ForwardRaised("ValueError", {})
    ELSE IF PrefersPayload(t, out)
    THEN ForwardReturned(out.structuredContent,
                         ValidateWarnings(out.structuredContent, t.output_schema))
    ELSE LET w == ContentWarnings(out.content)
             item == out.content[1]
         IN  IF ~IsTextContent(item) THEN ForwardRaised("ValueError", w)
             ELSE IF TriesJson(t, item.text)
             THEN IF ParseJson(item.text).ok
                  THEN ForwardReturned(ParseJson(item.text).value,
                           w \cup ValidateWarnings(ParseJson(item.text).value, t.output_schema))
                  ELSE ForwardReturned(Str(item.text), w \cup {"unparseable_text"})
             ELSE ForwardReturned(Str(item.text), w)

AdapterInit ==
    /\ serverFault = "none"
    /\ serverTools = << >>
    /\ serverparams = "stdio"
    /\ adapter = "both"
    /\ kwFailFast = "absent"
    /\ kwObserver = FALSE
    /\ kwAuthProvider = FALSE
    /\ observerCalls = 0
    /\ session = 0
    /\ mcp_tools = NoTools
    /\ loopClosed = FALSE
    /\ task = "none"
    /\ ready = FALSE
    /\ bgPc = "none"
    /\ bgm = NoGen
    /\ ctxmanager = NoGen
    /\ cancelPending = FALSE
    /\ conns = << >>
    /\ callerPc = "new"
    /\ lastCall = "none"
    /\ calls = 0
    /\ result = NoResult
    /\ stats = [cancels |-> 0, joins |-> 0, loopCloses |-> 0]
    /\ structured_output \in BOOLEAN
    /\ inputSchema = PlainInputSchema
    /\ outputSchema \in OutputSchemas
    /\ adapted = NoTool
    /\ mcp_output = NoOutput
    /\ fwd = NoForward
    /\ CallsUnused
    /\ UtilsUnused

\* lines 188-189
DescriptionOf(v) ==
    IF v.description = "absent" THEN "see tool description" ELSE v.description

\* lines 190-191
KeepMissingType(v) == v.type

TypeOf(v) == IF v.type = "absent" THEN "string" ELSE v.type

\* lines 187-191 and 289: the `inputs` of the tool
InputsOf(schema) ==
    [k \in DOMAIN schema.properties |->
        [description |-> DescriptionOf(schema.properties[k]),
         type |-> TypeOf(schema.properties[k])]]

\* lines 180-295.  input_schema["properties"] of line 187 raises KeyError
\* when the schema has no such key.
AdaptOutcome(structured, inSchema, outSchema) ==
    IF ~inSchema.hasProperties
    THEN [NoTool EXCEPT !.err = "KeyError"]
    ELSE [MakeTool(structured, outSchema) EXCEPT !.inputs = InputsOf(inSchema)]

\* SmolAgentsAdapter.adapt (lines 166-295)
Adapt ==
    /\ adapted = NoTool
    /\ adapted' = AdaptOutcome(structured_output, inputSchema, outputSchema)
    /\ UNCHANGED <<lifecycleVars, callVars, utilVars, structured_output, inputSchema, outputSchema,
                   mcp_output, fwd>>

\* one call of the adapted tool: func returns the result `out`
Forward ==
    /\ adapted.made
    /\ \E shape \in ArgShapes :
          IF FuncArgument(shape).called
          THEN \E content \in Contents, payload \in Payloads :
                  LET out == [content |-> content, structuredContent |-> payload] IN
                    /\ mcp_output' = out
                    /\ fwd' = [ForwardOutcome(adapted, shape, out)
                                  EXCEPT !.shape = shape,
                                         !.passed = FuncArgument(shape).passed]
          ELSE /\ mcp_output' = NoOutput
               /\ fwd' = [ForwardOutcome(adapted, shape, NoOutput) EXCEPT !.shape = shape]
    /\ UNCHANGED <<lifecycleVars, callVars, utilVars, structured_output, inputSchema, outputSchema,
                   adapted>>

AdapterNext == Adapt \/ Forward

AdapterSpec == AdapterInit /\ [][AdapterNext]_vars

\* adapt() alone, over the input and output schemas a server can declare
SchemaInit ==
    /\ serverFault = "none"
    /\ serverTools = << >>
    /\ serverparams = "stdio"
    /\ adapter = "both"
    /\ kwFailFast = "absent"
    /\ kwObserver = FALSE
    /\ kwAuthProvider = FALSE
    /\ observerCalls = 0
    /\ session = 0
    /\ mcp_tools = NoTools
    /\ loopClosed = FALSE
    /\ task = "none"
    /\ ready = FALSE
    /\ bgPc = "none"
    /\ bgm = NoGen
    /\ ctxmanager = NoGen
    /\ cancelPending = FALSE
    /\ conns = << >>
    /\ callerPc = "new"
    /\ lastCall = "none"
    /\ calls = 0
    /\ result = NoResult
    /\ stats = [cancels |-> 0, joins |-> 0, loopCloses |-> 0]
    /\ structured_output \in BOOLEAN
    /\ inputSchema \in InputSchemas
    /\ outputSchema \in OutputSchemas \cup {UnresolvableRefsSchema}
    /\ adapted = NoTool
    /\ mcp_output = NoOutput
    /\ fwd = NoForward
    /\ CallsUnused
    /\ UtilsUnused

SchemaSpec == SchemaInit /\ [][Adapt]_vars


\* ================================================== calls of adapted tools
\* What the server answers to call_tool: a result, a result with isError
\* set, or a JSON-RPC error, which call_tool raises as McpError.
AnswerKinds == {"result", "isError", "McpError"}

Answer(kind, req) ==
    IF kind = "McpError"
    THEN [status |-> "raised", err |-> "McpError", isError |-> FALSE, tool |-> req.name,
          echo |-> req.arg]
    ELSE [status |-> "ok", err |-> "none", isError |-> (kind = "isError"), tool |-> req.name,
          echo |-> req.arg]

\* an exception raised on the way to the server
Failure(err, req) ==
    [status |-> "raised", err |-> err, isError |-> FALSE, tool |-> req.name, echo |-> req.arg]

\* session.call_tool(name, arguments) on session `req.session`
CallToolOutcomes(req, cs) ==
    IF cs[req.session].sess = "open"
    THEN {Answer(k, req) : k \in AnswerKinds}
    ELSE {Failure("ClosedResourceError", req)}

\* line 240: run_coroutine_threadsafe creates one Future per call
SharedFuture(c) == 1

FutureOf(c) == c

\* line 242: Future.result() returns the coroutine's value or raises its
\* exception
ResultOrNone(f) ==
    IF f.status = "raised" THEN [f EXCEPT !.status = "ok", !.err = "none"] ELSE f

FutureResult(f) == f

\* the caller's statement `tools = adapter.tools()`, `with ... as tools` or
\* `async with ... as tools`: the list is kept.  A sync tool's function closes
\* over the bridge (line 237); an async tool's is bound to the session of that
\* moment (line 293).
KeepTools ==
    /\ callerPc = "idle"
    /\ result.status = "ok"
    /\ result.op \in {"tools", "aenter"}
    /\ LET kept == [i \in 1..Len(result.val) |->
                      [name |-> result.val[i].name, how |-> result.val[i].how,
                       listed |-> session]] IN
        /\ held # kept
        /\ held' = kept
    /\ UNCHANGED <<lifecycleVars, adapterVars, utilVars, asyncConns, inv, futs>>

InFlight == {c \in Callers : inv[c].pc \in {"scheduled", "completed"}}

\* _sync_call_tool up to the point where .result() blocks (lines 238-242).
\* self.session and self.loop are read now, not when tools() ran.
\* call_soon_threadsafe raises RuntimeError on a closed loop.
SyncCallBegin(c, i) ==
    /\ inv[c].pc \in {"idle", "done"}
    /\ calls < MaxCalls
    /\ i \in DOMAIN held
    /\ held[i].how = "adapt"
    /\ calls' = calls + 1
    /\ LET req == [session |-> session, loop |-> "bg", name |-> held[i].name, arg |-> c,
                   overlaps |-> InFlight \ {c}] IN
        IF session = 0 \/ loopClosed
        THEN inv' = [inv EXCEPT ![c] =
                        [pc |-> "done", tool |-> held[i], req |-> NoRequest,
                         produced |-> NoOutcome, resp |-> Failure("RuntimeError", req)]]
        ELSE inv' = [inv EXCEPT ![c] =
                        [pc |-> "scheduled", tool |-> held[i], req |-> req,
                         produced |-> NoOutcome, resp |-> NoOutcome]]
    /\ UNCHANGED <<envVars, argVars, adapterVars, utilVars, objVars, bgVars, ctxmanager, conns, callerPc,
                   lastCall, result, stats, held, asyncConns, futs>>

\* the background loop runs the coroutine to its end and sets the future
BgServeCall(c) ==
    /\ bgPc = "serving"
    /\ inv[c].pc = "scheduled"
    /\ \E out \in CallToolOutcomes(inv[c].req, conns) :
          /\ futs' = [futs EXCEPT ![FutureOf(c)] = out]
          /\ inv' = [inv EXCEPT ![c].pc = "completed", ![c].produced = out]
    /\ UNCHANGED <<lifecycleVars, adapterVars, utilVars, held, asyncConns>>

\* .result() returns (line 242)
SyncCallReturn(c) ==
    /\ inv[c].pc = "completed"
    /\ inv' = [inv EXCEPT ![c].pc = "done", ![c].resp = FutureResult(futs[FutureOf(c)])]
    /\ UNCHANGED <<lifecycleVars, adapterVars, utilVars, held, asyncConns, futs>>

\* `await tool(arguments)` of a tool made by atools(): the bound method
\* session.call_tool runs on the caller's loop (line 293)
AsyncCall(c, i) ==
    /\ inv[c].pc \in {"idle", "done"}
    /\ calls < MaxCalls
    /\ i \in DOMAIN held
    /\ held[i].how = "async_adapt"
    /\ calls' = calls + 1
    /\ LET req == [session |-> held[i].listed, loop |-> "caller", name |-> held[i].name,
                   arg |-> c, overlaps |-> {}] IN
        \E out \in CallToolOutcomes(req, conns) :
            inv' = [inv EXCEPT ![c] =
                      [pc |-> "done", tool |-> held[i], req |-> req, produced |-> out,
                       resp |-> out]]
    /\ UNCHANGED <<envVars, argVars, adapterVars, utilVars, objVars, bgVars, ctxmanager, conns, callerPc,
                   lastCall, result, stats, held, asyncConns, futs>>

\* the tools of the server the calls go to
CallTools == <<"echo_tool", "add">>

\* One healthy stdio server; the bridge is used from several threads.
CallInit ==
    /\ serverFault = "none"
    /\ serverTools = CallTools
    /\ serverparams = "stdio"
    /\ adapter = "both"
    /\ kwFailFast = "absent"
    /\ kwObserver = FALSE
    /\ kwAuthProvider = FALSE
    /\ observerCalls = 0
    /\ session = 0
    /\ mcp_tools = NoTools
    /\ loopClosed = FALSE
    /\ task = "none"
    /\ ready = FALSE
    /\ bgPc = "none"
    /\ bgm = NoGen
    /\ ctxmanager = NoGen
    /\ cancelPending = FALSE
    /\ conns = << >>
    /\ callerPc = "new"
    /\ lastCall = "none"
    /\ calls = 0
    /\ result = NoResult
    /\ stats = [cancels |-> 0, joins |-> 0, loopCloses |-> 0]
    /\ AdapterUnused
    /\ CallsUnused
    /\ UtilsUnused

CallNext ==
    \/ Construct
    \/ WaitReady
    \/ Start
    \/ Tools
    \/ CloseBegin
    \/ CloseJoin
    \/ CloseLoop
    \/ AEnterBegin
    \/ AEnterStep
    \/ AEnterFinish
    \/ BgCreateTask
    \/ BgSetupStep
    \/ BgStore
    \/ BgSetReady
    \/ BgCancel
    \/ KeepTools
    \/ \E c \in Callers, i \in 1..MaxTools : SyncCallBegin(c, i)
    \/ \E c \in Callers : BgServeCall(c)
    \/ \E c \in Callers : SyncCallReturn(c)
    \/ \E c \in Callers, i \in 1..MaxTools : AsyncCall(c, i)

CallSpec == CallInit /\ [][CallNext]_vars


\* ================================================ _sanitize_function_name
\* line 88: name.replace("-", "_")
ReplaceDashes(n) == [i \in DOMAIN n |-> IF n[i] = "-" THEN "_" ELSE n[i]]

\* `\w` of a str pattern: what str.isalnum accepts, and '_'
IsWordChar(ch) == ch \in Letters \cup DecimalDigits \cup {"_", SuperscriptTwo}

\* line 91: re.sub(r"[^\w_]", "", name)
RECURSIVE StripNonWord(_)
StripNonWord(n) ==
    IF n = << >> THEN << >>
    ELSE IF IsWordChar(Head(n)) THEN <<Head(n)>> \o StripNonWord(Tail(n))
    ELSE StripNonWord(Tail(n))

\* str.isdigit
IsDigit(ch) == ch \in DecimalDigits \cup {SuperscriptTwo}

\* keyword.iskeyword, on the keywords these characters can spell
Keywords == {<<"d", "e", "f">>}

IsKeyword(n) == n \in Keywords

SanitizeRaised(err) == [status |-> "raised", err |-> err, name |-> << >>]

SanitizeReturned(n) == [status |-> "returned", err |-> "none", name |-> n]

\* line 94: name[0] of the empty string raises IndexError
FirstChar(n) == IF n = << >> THEN [ok |-> FALSE, ch |-> ""] ELSE [ok |-> TRUE, ch |-> n[1]]

\* lines 82-101
SanitizeFunctionName(n) ==
    LET stripped == StripNonWord(ReplaceDashes(n))
        first == FirstChar(stripped)
    IN  IF ~first.ok THEN SanitizeRaised("IndexError")
        ELSE LET prefixed == IF IsDigit(first.ch) THEN <<"_">> \o stripped ELSE stripped
             IN  SanitizeReturned(IF IsKeyword(prefixed) THEN Append(prefixed, "_")
                                  ELSE prefixed)

\* one call of the sanitizer on the name
Sanitize ==
    /\ Len(sanitized) < MaxRepeats
    /\ sanitized' = Append(sanitized, SanitizeFunctionName(name))
    /\ UNCHANGED <<lifecycleVars, adapterVars, callVars, name, config, heap, returned, provider,
                   callback_data, callbackServer, waiting>>

SanitizeInit ==
    /\ serverFault = "none"
    /\ serverTools = << >>
    /\ serverparams = "stdio"
    /\ adapter = "both"
    /\ kwFailFast = "absent"
    /\ kwObserver = FALSE
    /\ kwAuthProvider = FALSE
    /\ observerCalls = 0
    /\ session = 0
    /\ mcp_tools = NoTools
    /\ loopClosed = FALSE
    /\ task = "none"
    /\ ready = FALSE
    /\ bgPc = "none"
    /\ bgm = NoGen
    /\ ctxmanager = NoGen
    /\ cancelPending = FALSE
    /\ conns = << >>
    /\ callerPc = "new"
    /\ lastCall = "none"
    /\ calls = 0
    /\ result = NoResult
    /\ stats = [cancels |-> 0, joins |-> 0, loopCloses |-> 0]
    /\ AdapterUnused
    /\ CallsUnused
    /\ name \in Names \cup ExampleNames
    /\ sanitized = << >>
    /\ config = NoConfig
    /\ heap = << >>
    /\ returned = << >>
    /\ provider = NoProvider
    /\ CallbackUnused

SanitizeSpec == SanitizeInit /\ [][Sanitize]_vars


\* ====================================================== async adaptation
\* `async with MCPAdapt(serverparams, adapter) as tools:` for each adapter
AsyncInit ==
    /\ serverFault = "none"
    /\ serverTools \in ToolLists
    /\ serverparams = "stdio"
    /\ adapter \in Adapters
    /\ kwFailFast = "absent"
    /\ kwObserver = FALSE
    /\ kwAuthProvider = FALSE
    /\ observerCalls = 0
    /\ session = 0
    /\ mcp_tools = NoTools
    /\ loopClosed = FALSE
    /\ task = "none"
    /\ ready = FALSE
    /\ bgPc = "none"
    /\ bgm = NoGen
    /\ ctxmanager = NoGen
    /\ cancelPending = FALSE
    /\ conns = << >>
    /\ callerPc = "new"
    /\ lastCall = "none"
    /\ calls = 0
    /\ result = NoResult
    /\ stats = [cancels |-> 0, joins |-> 0, loopCloses |-> 0]
    /\ AdapterUnused
    /\ CallsUnused
    /\ UtilsUnused

AsyncNext ==
    \/ Construct
    \/ WaitReady
    \/ BgCreateTask
    \/ BgSetupStep
    \/ BgStore
    \/ BgSetReady
    \/ AEnterBegin
    \/ AEnterStep
    \/ AEnterFinish
    \/ AExit
    \/ AwaitAdapted

AsyncSpec == AsyncInit /\ [][AsyncNext]_vars

\* ========================================================= auth providers
\* A header value: the scheme word before the credential, if any.
HeaderValue(scheme, cred) == [scheme |-> scheme, cred |-> cred]

\* a dict as the set of its items
SetItem(d, k, v) == {item \in d : item[1] # k} \cup {<<k, v>>}

\* lines 30 and 50: the dict literal get_headers() evaluates
HeadersOf(cfg) ==
    IF cfg.type = "api_key"
    THEN {<<cfg.header_name, HeaderValue("", cfg.header_value)>>}
    ELSE {<<"Authorization", HeaderValue("Bearer", cfg.token)>>}

\* lines 30 and 50: a dict display builds a new object at every evaluation
CachedHeadersObject(h) == 1

NewHeadersObject(h) == Len(h) + 1

\* ApiKeyAuthProvider.get_headers / BearerAuthProvider.get_headers
GetHeaders ==
    /\ config # NoConfig
    /\ Len(returned) < MaxRepeats
    /\ LET obj == NewHeadersObject(heap)
           h == IF obj > Len(heap) THEN Append(heap, HeadersOf(config)) ELSE heap
       IN  /\ heap' = h
           /\ returned' = Append(returned, [obj |-> obj, value |-> h[obj]])
    /\ UNCHANGED <<lifecycleVars, adapterVars, callVars, name, sanitized, config, provider,
                   callback_data, callbackServer, waiting>>

\* the caller changes a dict it got: sets a key, or clears it
MutateHeaders ==
    /\ \E i \in DOMAIN returned :
          \/ \E k \in {"X-API-Key", "Authorization"} :
                heap' = [heap EXCEPT ![returned[i].obj] =
                            SetItem(@, k, HeaderValue("", "changed"))]
          \/ heap' = [heap EXCEPT ![returned[i].obj] = {}]
    /\ heap' # heap
    /\ UNCHANGED <<lifecycleVars, adapterVars, callVars, name, sanitized, config, returned, provider,
                   callback_data, callbackServer, waiting>>

AuthInit ==
    /\ serverFault = "none"
    /\ serverTools = << >>
    /\ serverparams = "stdio"
    /\ adapter = "both"
    /\ kwFailFast = "absent"
    /\ kwObserver = FALSE
    /\ kwAuthProvider = FALSE
    /\ observerCalls = 0
    /\ session = 0
    /\ mcp_tools = NoTools
    /\ loopClosed = FALSE
    /\ task = "none"
    /\ ready = FALSE
    /\ bgPc = "none"
    /\ bgm = NoGen
    /\ ctxmanager = NoGen
    /\ cancelPending = FALSE
    /\ conns = << >>
    /\ callerPc = "new"
    /\ lastCall = "none"
    /\ calls = 0
    /\ result = NoResult
    /\ stats = [cancels |-> 0, joins |-> 0, loopCloses |-> 0]
    /\ AdapterUnused
    /\ CallsUnused
    /\ name \in ExampleNames
    /\ sanitized = << >>
    /\ config \in Configs
    /\ heap = << >>
    /\ returned = << >>
    /\ provider = NoProvider
    /\ CallbackUnused

AuthNext == GetHeaders \/ MutateHeaders \/ Sanitize

AuthSpec == AuthInit /\ [][AuthNext]_vars

\* lines 53-92: the provider built for a configuration
CreateAuthProvider(cfg) ==
    CASE cfg.type = "oauth" -> [status |-> "ok", kind |-> "OAuthClientProvider"]
      [] cfg.type = "api_key" -> [status |-> "ok", kind |-> "ApiKeyAuthProvider"]
      [] cfg.type = "bearer" -> [status |-> "ok", kind |-> "BearerAuthProvider"]
      [] OTHER -> [status |-> "raised", kind |-> "ValueError"]

\* line 104: isinstance(auth_provider, (ApiKeyAuthProvider, BearerAuthProvider))
IsAnyObject(p) == TRUE

IsHeaderProvider(p) == p \in {"ApiKeyAuthProvider", "BearerAuthProvider"}

\* lines 104-106
GetAuthHeadersValue(p, cfg) == IF IsHeaderProvider(p) THEN HeadersOf(cfg) ELSE {}

CreateProvider ==
    /\ provider = NoProvider
    /\ provider' = CreateAuthProvider(config)
    /\ UNCHANGED <<lifecycleVars, adapterVars, callVars, name, sanitized, config, heap, returned,
                   callback_data, callbackServer, waiting>>

\* get_auth_headers(p) for the provider built, or for an object that is no
\* provider at all
GetAuthHeaders ==
    /\ provider.status = "ok"
    /\ Len(returned) < MaxRepeats
    /\ \E p \in {provider.kind, "object"} :
          LET obj == NewHeadersObject(heap)
              h == IF obj > Len(heap)
                   THEN Append(heap, GetAuthHeadersValue(p, config))
                   ELSE heap
          IN  /\ heap' = h
              /\ returned' = Append(returned, [obj |-> obj, value |-> h[obj], asked |-> p])
    /\ UNCHANGED <<lifecycleVars, adapterVars, callVars, name, sanitized, config, provider,
                   callback_data, callbackServer, waiting>>

FactoryInit ==
    /\ serverFault = "none"
    /\ serverTools = << >>
    /\ serverparams = "stdio"
    /\ adapter = "both"
    /\ kwFailFast = "absent"
    /\ kwObserver = FALSE
    /\ kwAuthProvider = FALSE
    /\ observerCalls = 0
    /\ session = 0
    /\ mcp_tools = NoTools
    /\ loopClosed = FALSE
    /\ task = "none"
    /\ ready = FALSE
    /\ bgPc = "none"
    /\ bgm = NoGen
    /\ ctxmanager = NoGen
    /\ cancelPending = FALSE
    /\ conns = << >>
    /\ callerPc = "new"
    /\ lastCall = "none"
    /\ calls = 0
    /\ result = NoResult
    /\ stats = [cancels |-> 0, joins |-> 0, loopCloses |-> 0]
    /\ AdapterUnused
    /\ CallsUnused
    /\ name = << >>
    /\ sanitized = << >>
    /\ config \in AuthConfigs
    /\ heap = << >>
    /\ returned = << >>
    /\ provider = NoProvider
    /\ CallbackUnused

FactoryNext == CreateProvider \/ GetAuthHeaders \/ MutateHeaders

FactorySpec == FactoryInit /\ [][FactoryNext]_vars


\* ================================================= OAuth callback server
\* requests the callback server handles before the model stops counting
MaxRequests == 2

\* polls of wait_for_callback that fit in its timeout: the timeout in units
\* of the sleep of line 121
MaxPolls == 2

\* The query of a GET request, after parse_qs: the first value of "code", of
\* "state" and of "error" ("": the key is absent; parse_qs drops a key whose
\* value is blank).
Requests == [code : {"", "c1", "c2"}, state : {"", "s1"}, error : {"", "access_denied"}]

\* CallbackHandler.do_GET (lines 24-57): callback_data after the request
DoGetData(data, req) ==
    IF req.code # ""
    THEN [data EXCEPT !.authorization_code = req.code, !.state = req.state]
    ELSE IF req.error # "" THEN [data EXCEPT !.error = req.error]
    ELSE data

\* The server thread handles one request.  The log keeps the request, what
\* callback_data was before and after it, and where the wait stood.
DoGet ==
    /\ callbackServer.state = "running"
    /\ Len(callbackServer.requests) < MaxRequests
    /\ \E req \in Requests :
          /\ callback_data' = DoGetData(callback_data, req)
          /\ callbackServer' =
                [callbackServer EXCEPT !.requests =
                    Append(@, [req |-> req, found |-> callback_data,
                               left |-> DoGetData(callback_data, req),
                               at |-> waiting.elapsed, pc |-> waiting.pc])]
    /\ UNCHANGED <<lifecycleVars, adapterVars, callVars, name, sanitized, config, heap, returned,
                   provider, waiting>>

\* default_callback_handler, lines 148-152: the server is started and
\* wait_for_callback entered
StartCallbackServer ==
    /\ waiting.pc = "new"
    /\ callbackServer' = [callbackServer EXCEPT !.state = "running"]
    /\ waiting' = [waiting EXCEPT !.pc = "check"]
    /\ UNCHANGED <<lifecycleVars, adapterVars, callVars, name, sanitized, config, heap, returned,
                   provider, callback_data>>

\* lines 116-120 and 122: the loop condition and the two tests
WaitPoll ==
    /\ waiting.pc = "check"
    /\ waiting' =
          IF waiting.elapsed < MaxPolls
          THEN IF callback_data.authorization_code # ""
               THEN [waiting EXCEPT !.pc = "finally", !.status = "returned",
                                    !.value = callback_data.authorization_code]
               ELSE IF callback_data.error # ""
               THEN [waiting EXCEPT !.pc = "finally", !.status = "raised", !.err = "OAuth error"]
               ELSE [waiting EXCEPT !.pc = "sleep"]
          ELSE [waiting EXCEPT !.pc = "finally", !.status = "raised", !.err = "Timeout"]
    /\ UNCHANGED <<lifecycleVars, adapterVars, callVars, name, sanitized, config, heap, returned,
                   provider, callback_data, callbackServer>>

\* line 121: time.sleep(0.1)
WaitSleep ==
    /\ waiting.pc = "sleep"
    /\ waiting' = [waiting EXCEPT !.pc = "check", !.elapsed = @ + 1]
    /\ UNCHANGED <<lifecycleVars, adapterVars, callVars, name, sanitized, config, heap, returned,
                   provider, callback_data, callbackServer>>

\* lines 153-156: the way out of default_callback_handler, through the
\* finally clause, which stops the server
FinishCallback ==
    /\ waiting.pc = "finally"
    /\ waiting' = [waiting EXCEPT !.pc = "done"]
    /\ callbackServer' = [callbackServer EXCEPT !.state = "stopped"]
    /\ UNCHANGED <<lifecycleVars, adapterVars, callVars, name, sanitized, config, heap, returned,
                   provider, callback_data>>

CallbackInit ==
    /\ serverFault = "none"
    /\ serverTools = << >>
    /\ serverparams = "stdio"
    /\ adapter = "both"
    /\ kwFailFast = "absent"
    /\ kwObserver = FALSE
    /\ kwAuthProvider = FALSE
    /\ observerCalls = 0
    /\ session = 0
    /\ mcp_tools = NoTools
    /\ loopClosed = FALSE
    /\ task = "none"
    /\ ready = FALSE
    /\ bgPc = "none"
    /\ bgm = NoGen
    /\ ctxmanager = NoGen
    /\ cancelPending = FALSE
    /\ conns = << >>
    /\ callerPc = "new"
    /\ lastCall = "none"
    /\ calls = 0
    /\ result = NoResult
    /\ stats = [cancels |-> 0, joins |-> 0, loopCloses |-> 0]
    /\ AdapterUnused
    /\ CallsUnused
    /\ UtilsUnused

CallbackNext == StartCallbackServer \/ DoGet \/ WaitPoll \/ WaitSleep \/ FinishCallback

CallbackSpec == CallbackInit /\ [][CallbackNext]_vars

\* =================================================================== claims

\* the constructor call has ended (returned or raised)
EntryEnded == callerPc \notin {"new", "wait_ready"} /\ lastCall = "init"

\* the connection to the server of a single descriptor cannot be established
ConnectionFails == serverFault # "none" \/ SelectClient(serverparams) = "ValueError"

OpenSessions == {i \in DOMAIN conns : conns[i].sess = "open"}

\* C1: when channel setup or the handshake fails in the background thread,
\* the constructor / start() eventually hands the failure to the caller by
\* raising; the caller does not stay blocked in ready.wait().
C1_SetupFailureReachesCaller ==
    (task = "failed") ~> (callerPc # "wait_ready" /\ result.status = "raised")

\* C2: under the fail-fast policy (the default, or fail_fast=True) and a list
\* of several descriptors, the first failure to connect makes the call raise,
\* and when it has raised no connection is open.
C2_FailFastListRaisesWithNothingOpen ==
    (serverparams = "list" /\ kwFailFast # "false" /\ ~kwObserver /\ task = "failed")
        ~> (result.status = "raised"
            /\ \A i \in DOMAIN conns : conns[i].chan # "open" /\ conns[i].sess # "open")

\* C3: with fail_fast=False entering the context does not raise, whatever
\* descriptors fail to connect.
C3_CollectModeEntryDoesNotRaise ==
    (kwFailFast = "false" /\ EntryEnded) => result.status = "ok"

\* C4: with fail_fast=False and an observer, once entry has ended the observer
\* has been invoked exactly once if the descriptor's connection failed and
\* not at all if it connected.
C4_ObserverOncePerFailedDescriptor ==
    (kwFailFast = "false" /\ kwObserver /\ serverparams # "list" /\ EntryEnded)
        => observerCalls = (IF ConnectionFails THEN 1 ELSE 0)

\* C5: with fail_fast=False and no descriptor connecting, entry yields the
\* empty tool collection and does not raise.
C5_NothingConnectedYieldsEmptyTools ==
    (kwFailFast = "false" /\ ConnectionFails /\ EntryEnded)
        => (result.status = "ok" /\ result.val = << >>)

\* C6: once the context is left (close() returned, with no async context
\* still entered; or __aexit__ returned having left the entered async
\* context), no channel, session or background thread of the instance is
\* live, and none was closed twice.
C6_ExitClosesEverythingOnce ==
    (/\ callerPc = "idle"
     /\ result.status = "ok"
     /\ \/ result.op = "close" /\ ctxmanager.pc # "yielded"
        \/ result.op = "aexit" /\ ctxmanager.pc = "closed")
    => (/\ ~ThreadAlive
        /\ \A i \in DOMAIN conns :
              /\ conns[i].chan # "open"
              /\ conns[i].sess # "open"
              /\ conns[i].chanCloses <= 1
              /\ conns[i].sessCloses <= 1)

\* C7: at every moment the instance holds at most one open session.
C7_AtMostOneOpenSession == Cardinality(OpenSessions) <= 1

\* C8: every step of a close() that follows a completed close() leaves the
\* task, the thread, the loop, the session, the connections and the counts of
\* cancellations, joins and loop closes as they were, and the call returns
\* without raising.
SecondCloseStep ==
    /\ result = Ok("close", << >>)
    /\ lastCall' = "close"
    /\ calls' = calls + 1 \/ callerPc \in {"close_join", "close_loop"}

C8_SecondCloseIsNoOp ==
    [][SecondCloseStep =>
          (UNCHANGED <<objVars, bgVars, ctxmanager, conns, stats>> /\ result' = result)]_vars

\* a close() called right after a completed close() has got to its last step
C8_SecondCloseRuns ==
    callerPc = "close_loop" /\ loopClosed /\ result = Ok("close", << >>)

\* C9: close() eventually returns, also when the background thread never
\* gets through the cancellation.
C9_CloseReturns == (callerPc = "close_join") ~> (callerPc = "idle")

\* C10: when mcptools raised after the channel was opened (initialize or
\* list_tools failed), the session and the channel are released, once each,
\* by the time the failure has left the generator.
C10_FailedSetupReleasesChannel ==
    \A m \in {bgm, ctxmanager} :
        (m.pc = "raised" /\ m.conn # 0)
            => /\ conns[m.conn].chan = "closed"
               /\ conns[m.conn].sess # "open"
               /\ conns[m.conn].chanCloses = 1
               /\ conns[m.conn].sessCloses = (IF conns[m.conn].sess = "closed" THEN 1 ELSE 0)

\* the background task failed in initialize or list_tools, with a channel open
C10_SetupFailedAfterOpen ==
    /\ task = "failed"
    /\ bgm.pc = "raised"
    /\ bgm.err = "McpError"
    /\ bgm.conn # 0
    /\ conns[bgm.conn].sessCloses = 1

\* ------------------------------------------------------------ bridge states
\* The lifecycle state of the synchronous bridge, read off the background
\* thread, its task and its loop.
BridgeState ==
    CASE bgPc = "none" -> "Idle"
      [] bgPc \in {"run", "setup", "store"} -> "Starting"
      [] bgPc = "serving" /\ ~cancelPending -> "Ready"
      [] bgPc = "serving" /\ cancelPending -> "Closing"
      [] bgPc = "stuck" -> "Closing"
      [] bgPc = "dead" /\ task = "failed" -> "Failed"
      [] bgPc = "dead" /\ task # "failed" /\ ~loopClosed -> "Closing"
      [] OTHER -> "Closed"

\* a step that is a whole call of tools()
ToolsCalled == lastCall' = "tools" /\ calls' = calls + 1

\* C11: a call of tools() raises the not-ready error exactly when the bridge
\* is not Ready; when it is Ready the call returns one adapted tool per tool
\* of the list the server advertised, in that order, whatever that list is.
C11_ToolsFailsExactlyWhenNotReady ==
    [][ToolsCalled =>
          /\ (result'.status = "raised") <=> (BridgeState # "Ready")
          /\ BridgeState = "Ready" =>
                /\ result'.status = "ok"
                /\ Len(result'.val) = Len(serverTools)
                /\ \A i \in 1..Len(serverTools) : result'.val[i].name = serverTools[i]]_vars

BridgeEdges ==
    {<<"Idle", "Starting">>, <<"Starting", "Ready">>, <<"Ready", "Closing">>,
     <<"Closing", "Closed">>, <<"Starting", "Failed">>}

\* C12 as stated: the bridge's state changes only along Idle -> Starting ->
\* Ready -> Closing -> Closed and Starting -> Failed.
C12_OnlySpecifiedTransitions ==
    [][BridgeState' # BridgeState => <<BridgeState, BridgeState'>> \in BridgeEdges]_vars

\* C12 amended: the same, and start() on a closed bridge takes it from Closed
\* to Starting again; nothing else leaves Closed, and Failed is final.
C12_TransitionsWithRestart ==
    [][BridgeState' # BridgeState =>
          \/ <<BridgeState, BridgeState'>> \in BridgeEdges
          \/ /\ BridgeState = "Closed"
             /\ BridgeState' = "Starting"
             /\ lastCall' = "start"]_vars

\* a closed bridge has been started again and is Ready a second time
C12_RestartedAfterClose ==
    /\ BridgeState = "Ready"
    /\ lastCall = "start"
    /\ result.op = "start"
    /\ stats.loopCloses >= 1

\* the loop a session's streams and receive task live on
SessionLoop(s) == IF s \in asyncConns THEN "caller" ELSE "bg"

CallIssued(c) == inv[c].req # NoRequest

\* C13: every request an adapted tool has issued went to the session that
\* listed the tool, on the loop of that session, under the tool's own name.
C13_CallsRouteToListingSession ==
    \A c \in Callers :
        CallIssued(c) =>
            /\ inv[c].req.session = inv[c].tool.listed
            /\ inv[c].req.loop = SessionLoop(inv[c].req.session)
            /\ inv[c].req.name = inv[c].tool.name

SyncCallDone(c) == inv[c].pc = "done" /\ inv[c].req.loop = "bg"

\* C14: whatever other threads have in flight, a synchronous call hands its
\* caller the outcome of the caller's own request: the answer names the tool
\* and carries the argument this caller sent.
C14_EachCallerGetsOwnResult ==
    \A c \in Callers :
        SyncCallDone(c) =>
            /\ inv[c].resp.echo = c
            /\ inv[c].resp.tool = inv[c].tool.name

\* two threads had calls in flight at once and both have their results back
C14_TwoOverlappingCallsDone ==
    /\ \A c \in {1, 2} : SyncCallDone(c) /\ inv[c].resp.status = "ok"
    /\ inv[2].req.overlaps = {1}

\* C15: a synchronous call has no response before its coroutine completed,
\* and then its response is what the remote call produced: the same result,
\* isError included, or the same exception.
C15_SyncCallReturnsWhatRemoteProduced ==
    \A c \in Callers :
        /\ inv[c].pc \in {"scheduled", "lost"} => inv[c].resp = NoOutcome
        /\ SyncCallDone(c) => inv[c].resp = inv[c].produced

\* a synchronous call raised the error the remote call raised
C15_RemoteErrorRaised ==
    \E c \in Callers :
        /\ SyncCallDone(c)
        /\ inv[c].produced.status = "raised"
        /\ inv[c].resp.status = "raised"
        /\ inv[c].resp.err = "McpError"

\* C16: what tools() returns lists the connected servers' tools in descriptor
\* order and, within a server, in list-tools order, without renaming or
\* dropping any; a list of descriptors whose servers all answer is set up.
C16_MergedToolsInDescriptorOrder ==
    /\ (result.op = "tools" /\ result.status = "ok")
          => /\ Len(result.val) = Len(mcp_tools.items)
             /\ \A i \in 1..Len(result.val) : result.val[i].name = mcp_tools.items[i]
    /\ (serverparams = "list" /\ serverFault = "none") => task # "failed"

\* C17: every handshake the bridge starts runs under the 5 second default
\* timeout, and none is left waiting without end for a server that is silent.
C17_HandshakeTimeoutInEffect ==
    \A gen \in {bgm, ctxmanager} :
        gen.active =>
            /\ gen.timeout = [set |-> TRUE, secs |-> DefaultTimeoutSeconds]
            /\ gen.pc # "hung"

\* the three output modes, read off the adapted tool
ModeOf(t) ==
    IF ~t.use_structured_features THEN "raw-text"
    ELSE IF t.output_type = "object" THEN "structured-object"
    ELSE "structured-string"

C19_OutputTypeObjectWithoutSchema ==
    adapted.made =>
        /\ ~structured_output
              => /\ adapted.output_type = "object"
                 /\ adapted.output_schema = "none"
                 /\ ~adapted.use_structured_features
        /\ (structured_output /\ outputSchema = "none")
              => /\ adapted.output_type = "object"
                 /\ adapted.output_schema = "none"

\* C20: with structured_output=False a call whose result has a text item
\* first returns that item's text unchanged, whatever the text, the
\* structured payload and the declared schema are.
C20_RawTextReturnsFirstTextVerbatim ==
    (/\ fwd.status # "none"
     /\ ~structured_output
     /\ mcp_output.content # << >>
     /\ mcp_output.content[1].type = "text")
    => (fwd.status = "returned" /\ fwd.value = Str(mcp_output.content[1].text))

\* a raw-text tool with a declared schema returned JSON text as it is, beside
\* a structured payload
C20_RawTextBesidePayload ==
    /\ ~structured_output
    /\ outputSchema = "object_schema"
    /\ mcp_output.structuredContent # PyNone
    /\ mcp_output.content # << >>
    /\ mcp_output.content[1] = [type |-> "text", text |-> JsonObjectText]
    /\ fwd.status = "returned"
    /\ fwd.value = Str(JsonObjectText)

\* the last forward() ran on a call result of a structured-object tool
StructuredObjectCall == fwd.status # "none" /\ ModeOf(adapted) = "structured-object"

FirstItem == mcp_output.content[1]

\* C21: in structured-object mode a call result that carries a structured
\* payload is answered with that payload, whatever its content items are;
\* one without payload whose first text item is JSON is answered with the
\* parsed value.
C21_StructuredPayloadPreferred ==
    StructuredObjectCall =>
        /\ mcp_output.structuredContent # PyNone
              => (fwd.status = "returned" /\ fwd.value = mcp_output.structuredContent)
        /\ (/\ mcp_output.structuredContent = PyNone
            /\ mcp_output.content # << >>
            /\ FirstItem.type = "text"
            /\ ParseJson(FirstItem.text).ok)
              => (fwd.status = "returned" /\ fwd.value = ParseJson(FirstItem.text).value)

\* a structured-object call without payload whose first item is text that
\* is no JSON
UnparseableCall ==
    /\ StructuredObjectCall
    /\ mcp_output.structuredContent = PyNone
    /\ mcp_output.content # << >>
    /\ FirstItem.type = "text"
    /\ ~ParseJson(FirstItem.text).ok

\* C22 as stated: such a call does not raise, logs the warning and returns
\* the raw text.
C22_UnparseableTextWarnsAndReturnsRaw ==
    UnparseableCall =>
        /\ fwd.status = "returned"
        /\ fwd.value = Str(FirstItem.text)
        /\ "unparseable_text" \in fwd.warnings

\* C22 amended: such a call does not raise and returns the raw text; the
\* warning is logged exactly when the text is not empty.
C22_NonEmptyUnparseableTextWarns ==
    UnparseableCall =>
        /\ fwd.status = "returned"
        /\ fwd.value = Str(FirstItem.text)
        /\ ("unparseable_text" \in fwd.warnings) <=> (FirstItem.text # "")

\* malformed JSON text came back as it is, with the warning
C22_MalformedJsonReturnedRaw ==
    /\ UnparseableCall
    /\ FirstItem.text = "{not json"
    /\ fwd.value = Str("{not json")
    /\ "unparseable_text" \in fwd.warnings

\* the last forward() got a call result with content
CalledWithContent == fwd.status # "none" /\ mcp_output.content # << >>

\* C23: a call result with several content items whose payload is not used
\* is answered as the result made of its first item alone would be, plus the
\* multiple-content warning; when the payload is used that warning is not
\* logged.
C23_FirstItemOnlyWithWarning ==
    CalledWithContent =>
        IF PrefersPayload(adapted, mcp_output)
        THEN "multiple_content" \notin fwd.warnings
        ELSE Len(mcp_output.content) > 1 =>
                LET alone == ForwardOutcome(adapted, KwargsOnly,
                                 [mcp_output EXCEPT !.content = <<FirstItem>>])
                IN  /\ "multiple_content" \in fwd.warnings
                    /\ fwd.status = alone.status
                    /\ fwd.value = alone.value
                    /\ fwd.warnings \ {"multiple_content"} = alone.warnings

\* two text items, the first one returned, the warning logged
C23_SecondItemDiscarded ==
    /\ CalledWithContent
    /\ Len(mcp_output.content) = 2
    /\ mcp_output.content[2].type = "text"
    /\ mcp_output.content[2].text # FirstItem.text
    /\ fwd.status = "returned"
    /\ fwd.value = Str(FirstItem.text)
    /\ "multiple_content" \in fwd.warnings

C25_ImageAndAudioDecoded ==
    (/\ CalledWithContent
     /\ ~PrefersPayload(adapted, mcp_output)
     /\ FirstItem.type \in {"image", "audio"})
    => (fwd.status = "returned" /\ fwd.value.t = FirstItem.type)

\* C26: with structured_output=True no bare list reaches the caller (it
\* comes wrapped in a mapping), and a result that is an object is returned
\* as the mapping equal to it.
C26_BareListWrapped ==
    (fwd.status = "returned" /\ structured_output) =>
        /\ fwd.value.t # "list"
        /\ mcp_output.structuredContent # PyNone => fwd.value = mcp_output.structuredContent

\* ---- the sanitizer as the specification words it
IsAlphanumeric(ch) == ch \in Letters \cup DecimalDigits \cup {SuperscriptTwo}

RECURSIVE KeepAlphanumericOrUnderscore(_)
KeepAlphanumericOrUnderscore(n) ==
    IF n = << >> THEN << >>
    ELSE (IF IsAlphanumeric(Head(n)) \/ Head(n) = "_" THEN <<Head(n)>> ELSE << >>)
            \o KeepAlphanumericOrUnderscore(Tail(n))

SanitizedAsSpecified(n) ==
    LET kept == KeepAlphanumericOrUnderscore(
                    [i \in DOMAIN n |-> IF n[i] = "-" THEN "_" ELSE n[i]])
        prefixed == IF kept # << >> /\ IsDigit(kept[1]) THEN <<"_">> \o kept ELSE kept
    IN  IF prefixed \in Keywords THEN prefixed \o <<"_">> ELSE prefixed

\* C27: for every tool name the sanitizer returns the name with '-' replaced
\* by '_', other non-alphanumeric characters removed, '_' put in front of a
\* leading digit and '_' appended to a keyword: "echo-tool" gives
\* "echo_tool", "def" gives "def_", "123x" gives "_123x".
C27_SanitizerComputesTheRule ==
    \A i \in DOMAIN sanitized :
        /\ sanitized[i] = SanitizeReturned(SanitizedAsSpecified(name))
        /\ name = <<"e", "c", "h", "o", "-", "t", "o", "o", "l">>
              => sanitized[i].name = <<"e", "c", "h", "o", "_", "t", "o", "o", "l">>
        /\ name = <<"d", "e", "f">> => sanitized[i].name = <<"d", "e", "f", "_">>
        /\ name = <<"1", "2", "3", "x">> => sanitized[i].name = <<"_", "1", "2", "3", "x">>

\* a valid identifier of the host language: a letter or '_', then letters,
\* decimal digits and '_'
IsIdentifier(n) ==
    /\ n # << >>
    /\ n[1] \in Letters \cup {"_"}
    /\ \A i \in DOMAIN n : n[i] \in Letters \cup DecimalDigits \cup {"_"}

\* C28: for every tool name, the empty one and those made of stripped
\* characters included, the sanitizer returns without raising a non-empty
\* valid identifier that is no keyword.
C28_SanitizerYieldsIdentifier ==
    \A i \in DOMAIN sanitized :
        /\ sanitized[i].status = "returned"
        /\ IsIdentifier(sanitized[i].name)
        /\ ~IsKeyword(sanitized[i].name)

\* what the provider's configuration says its headers are
ExpectedHeaders ==
    IF config.type = "api_key"
    THEN {<<config.header_name, [scheme |-> "", cred |-> config.header_value]>>}
    ELSE {<<"Authorization", [scheme |-> "Bearer", cred |-> config.token]>>}

\* C29: every get_headers() call on a provider returns the headers of its
\* configuration, equal to what every other call returned, whatever the
\* caller did to the mappings returned before; the calls leave the
\* configuration as it is; and every call of the sanitizer on a name gives
\* the same outcome.
C29_GetHeadersAndSanitizerRepeatable ==
    /\ [](/\ \A i \in DOMAIN returned : returned[i].value = ExpectedHeaders
          /\ \A i, j \in DOMAIN returned : returned[i].value = returned[j].value
          /\ \A i, j \in DOMAIN sanitized : sanitized[i] = sanitized[j])
    /\ [][config' = config /\ name' = name]_vars

\* two get_headers() calls, the first mapping changed by the caller before
\* the second call, and two calls of the sanitizer
C29_SecondCallAfterMutation ==
    /\ Len(returned) = 2
    /\ heap[returned[1].obj] # returned[1].value
    /\ returned[2].value = returned[1].value
    /\ heap[returned[2].obj] = returned[2].value
    /\ Len(sanitized) = 2

\* the adapters whose framework has no async tool support
NoAsyncSupport == {"inherited", "smolagents"}

\* C30: with an adapter that has no async support, entering the async context
\* never hands a list of adapted tools to the caller (it raises), and no
\* later await of an entry of such a list raises the not-supported error.
C30_AsyncAdaptationFailsAtAdaptation ==
    adapter \in NoAsyncSupport =>
        /\ ~(result.op = "aenter" /\ result.status = "ok")
        /\ ~(result.op = "await" /\ result.status = "raised")

\* C31: every input parameter of an adapted tool carries a description and a
\* type: the placeholder where the schema gave no description, "string"
\* where it gave no type, and what the schema gave otherwise; the tool has
\* the parameters of the schema and no other.
C31_InputsCarryDescriptionAndType ==
    adapted.made =>
        /\ DOMAIN adapted.inputs = DOMAIN inputSchema.properties
        /\ \A k \in DOMAIN adapted.inputs :
              LET given == inputSchema.properties[k]
                  now == adapted.inputs[k]
              IN  /\ now.description # "absent"
                  /\ now.type # "absent"
                  /\ given.description = "absent" => now.description = "see tool description"
                  /\ given.type = "absent" => now.type = "string"
                  /\ given.description # "absent" => now.description = given.description
                  /\ given.type # "absent" => now.type = given.type

\* a tool adapted from a schema with one bare parameter and one that gives
\* both keys
C31_BareAndDescribedParameter ==
    /\ adapted.made
    /\ \E k \in DOMAIN inputSchema.properties :
          inputSchema.properties[k] = [description |-> "absent", type |-> "absent"]
    /\ \E k \in DOMAIN inputSchema.properties :
          inputSchema.properties[k] = [description |-> "given", type |-> "integer"]

\* C32: adapt() returns no tool for an input schema without properties, nor
\* for an output schema whose references cannot be resolved.
C32_MalformedSchemaFailsAdaptation ==
    (~inputSchema.hasProperties \/ outputSchema = UnresolvableRefsSchema)
        => ~adapted.made

\* the opener the descriptor alone calls for
ExpectedOpener ==
    CASE serverparams = "stdio" -> "stdio_client"
      [] serverparams = "streamable_http" -> "streamablehttp_client"
      [] serverparams \in {"sse", "sse_default"} -> "sse_client"
      [] OTHER -> "rejected"

\* the first step of mcptools, which selects the opener and enters it
SelectionStep(m, n) == m.active /\ m.pc = "start" /\ n.pc \in {"opened", "raised"}

SelectedAsExpected(m, n) ==
    /\ serverparams' = serverparams
    /\ IF ExpectedOpener = "rejected"
       THEN n.pc = "raised" /\ n.err = "ValueError" /\ conns' = conns
       ELSE \/ /\ n.pc = "opened"
               /\ Len(conns') = Len(conns) + 1
               /\ conns'[n.conn].via = ExpectedOpener
            \/ /\ serverFault = "open"
               /\ n.pc = "raised"
               /\ n.err = "ConnectionError"
               /\ conns' = conns

C34_DocumentedAuthUsageConnects ==
    (serverparams = DocumentedDescriptor /\ kwAuthProvider)
        => /\ ~(result.op = "init" /\ result.status = "raised")
           /\ bgm.pc # "raised"
           /\ \A i \in DOMAIN conns : conns[i].via = "streamablehttp_client"

\* C35: create_auth_provider gives the OAuth provider for an OAuth
\* configuration, the API-key provider for an API-key one, the bearer
\* provider for a bearer one and raises ValueError for anything else;
\* get_auth_headers gives {header_name: header_value} for an API-key
\* provider, {"Authorization": "Bearer " + token} for a bearer provider and
\* the empty mapping for every other object.
C35_FactoryAndHeadersPerProvider ==
    /\ provider # NoProvider =>
          provider = (CASE config.type = "oauth" -> [status |-> "ok", kind |-> "OAuthClientProvider"]
                        [] config.type = "api_key" -> [status |-> "ok", kind |-> "ApiKeyAuthProvider"]
                        [] config.type = "bearer" -> [status |-> "ok", kind |-> "BearerAuthProvider"]
                        [] OTHER -> [status |-> "raised", kind |-> "ValueError"])
    /\ \A i \in DOMAIN returned :
          returned[i].value =
              (CASE returned[i].asked = "ApiKeyAuthProvider" ->
                        {<<config.header_name, [scheme |-> "", cred |-> config.header_value]>>}
                 [] returned[i].asked = "BearerAuthProvider" ->
                        {<<"Authorization", [scheme |-> "Bearer", cred |-> config.token]>>}
                 [] OTHER -> {})

\* get_auth_headers asked of an OAuth provider and of a bearer provider
C35_OAuthProviderGivesNoHeaders ==
    /\ provider = [status |-> "ok", kind |-> "OAuthClientProvider"]
    /\ Len(returned) >= 1
    /\ returned[1].asked = "OAuthClientProvider"
    /\ returned[1].value = {}

\* C36: whenever channel setup or the handshake has failed, the bridge's
\* session and its tool list are both unset.
C36_NothingCachedOnFailedStart ==
    task = "failed" => (session = 0 /\ mcp_tools.isNone)

\* the step that sets the readiness event
ReadySignalled == ~ready /\ ready'

\* the step that wakes the thread waiting for readiness
WokenFromWait == callerPc = "wait_ready" /\ callerPc' # "wait_ready"

\* C37: the readiness event is set only when the channel is open, initialize
\* and list_tools have completed and the session and the tool list of this
\* start are stored; while it is set both are assigned, and so they are when
\* the waiting thread is woken.
C37_ReadyOnlyAfterSessionStored ==
    /\ [](ready => (session # 0 /\ ~mcp_tools.isNone))
    /\ [][ReadySignalled =>
            /\ bgm.pc = "yielded"
            /\ conns[bgm.conn].chan = "open"
            /\ conns[bgm.conn].sess = "open"
            /\ session = bgm.conn
            /\ mcp_tools = [isNone |-> FALSE, items |-> bgm.tools]]_vars
    /\ [][WokenFromWait => (session' # 0 /\ ~mcp_tools'.isNone)]_vars

\* a second start, after close(), has signalled readiness for its own session
C37_ReadyAgainAfterRestart ==
    /\ ready
    /\ lastCall = "start"
    /\ callerPc = "idle"
    /\ stats.loopCloses >= 1
    /\ session = bgm.conn
    /\ session > 1

\* C38: a synchronous tool call that races with close() is never left
\* without an outcome to come: whenever a call waits for its future (it was
\* submitted and has neither returned nor raised), the thread of the loop
\* it was submitted to is alive, so the loop can still complete it; no call
\* is left on a loop that has stopped.
C38_CallRacingCloseGetsOutcome ==
    \A c \in Callers :
        /\ inv[c].pc # "lost"
        /\ inv[c].pc = "scheduled" => (ThreadAlive /\ ~loopClosed)

\* C39: forward called with keyword arguments only calls the remote function
\* with the keyword mapping; called with exactly one positional mapping and
\* no keyword argument it calls it with that mapping; called in any other
\* way it raises and the remote function is not called.
C39_ForwardArgumentShapes ==
    fwd.status # "none" =>
        CASE fwd.shape.args = << >> -> fwd.passed = "kwargs"
          [] fwd.shape.args = <<"dict">> /\ ~fwd.shape.kwargs -> fwd.passed = "args[0]"
          [] OTHER -> /\ fwd.status = "raised"
                      /\ fwd.passed = "none"
                      /\ mcp_output = NoOutput

\* one call with a positional mapping together with keyword arguments, which
\* raised
C39_MappingWithKeywordsRaised ==
    /\ fwd.shape = [args |-> <<"dict">>, kwargs |-> TRUE]
    /\ fwd.status = "raised"
    /\ fwd.err = "ValueError"

\* the requests handled while wait_for_callback was running and its timeout
\* had not passed
ArrivedInTime ==
    {i \in DOMAIN callbackServer.requests :
        /\ callbackServer.requests[i].pc \in {"check", "sleep"}
        /\ callbackServer.requests[i].at < MaxPolls}

\* wait_for_callback has returned or raised
WaitEnded == waiting.status # "none"

\* C40: wait_for_callback returns only a code a request delivered, never an
\* empty one; it returns a code when one was received during the wait and
\* within the timeout, raises the OAuth error when only an error was, and
\* raises the timeout error when neither was; a request with neither code nor
\* error leaves callback_data as it was; and when default_callback_handler
\* has ended the server is stopped.
C40_CallbackWaitOutcomeAsReceived ==
    /\ waiting.status = "returned" =>
          /\ waiting.value # ""
          /\ \E i \in DOMAIN callbackServer.requests :
                callbackServer.requests[i].req.code = waiting.value
    /\ WaitEnded =>
          LET reqs == callbackServer.requests
              codes == {i \in ArrivedInTime : reqs[i].req.code # ""}
              errors == {i \in ArrivedInTime : reqs[i].req.code = "" /\ reqs[i].req.error # ""}
          IN  /\ codes # {} => (waiting.status = "returned" \/ waiting.err = "OAuth error")
              /\ (codes = {} /\ errors # {}) => waiting.err = "OAuth error"
              /\ (codes = {} /\ errors = {}) => waiting.err = "Timeout"
    /\ \A i \in DOMAIN callbackServer.requests :
          LET r == callbackServer.requests[i] IN
            (r.req.code = "" /\ r.req.error = "") => r.left = r.found
    /\ waiting.pc = "done" => callbackServer.state = "stopped"

====
